---- MODULE Spec2Model ----
(***************************************************************************)
(* Navigation state machine of the bubbletea-menubar component: the        *)
(* recursive Model (bar plus chain of open dropdowns), its Update for key  *)
(* and mouse messages, and the example host's esc wrapper.                 *)
(* Indices are 0-based as in the Go source; Items[i] of the source is      *)
(* At(items, i) here.  A nil *Model is the empty sequence, a non-nil one a *)
(* one-element sequence holding the pointed-to Model.                      *)
(***************************************************************************)
EXTENDS Integers, Sequences, FiniteSets, TLC

(***************************************************************************)
(* Bounds of the model                                                     *)
(***************************************************************************)
\* mouse events are delivered at rows 0..MaxY and at every third column
\* 1, 4, .., 3 * MaxCol + 1 (a bar entry with a one-cell label is 3 wide)
MaxCol == 9
MaxY == 9
\* unrolling allowance of the skip loops beyond len(Items)
LoopSlack == 2

(***************************************************************************)
(* Style-derived program constants (DefaultStyles)                         *)
(***************************************************************************)
\* lipgloss.Height(m.Styles.Bar.Render("A"))
BarHeight == 1
\* lipgloss.Height(m.Styles.Dropdown.GetBorderStyle().Top)
TopBorder == 1
\* horizontal padding of Item / DropdownItem: Padding(0, 1)
ItemPadding == 2
\* Dropdown NormalBorder frame: left+right, top+bottom
FrameW == 2
FrameH == 2
\* height of one rendered DropdownItem / Separator line
ItemHeight == 1

(***************************************************************************)
(* MenuItem values                                                         *)
(***************************************************************************)
NoAction == "nil"
NoCmd == "nil"
Nil == <<>>

Item(label, hotkey, action, sub, disabled) ==
    [Label |-> label, Hotkey |-> hotkey, Shortcut |-> "", Action |-> action,
     SubMenu |-> sub, IsSeparator |-> FALSE, Disabled |-> disabled]

Separator ==
    [Label |-> "", Hotkey |-> "", Shortcut |-> "", Action |-> NoAction,
     SubMenu |-> <<>>, IsSeparator |-> TRUE, Disabled |-> FALSE]

At(items, i) == items[i + 1]

InRange(items, i) == i >= 0 /\ i < Len(items)

Selectable(it) == ~(it.IsSeparator \/ it.Disabled)

\* the menu definitions the bar is constructed from
AdvancedMenu ==
    << Item("R", "", "actRegex", <<>>, FALSE),
       Item("C", "", NoAction, <<>>, FALSE) >>

FindMenu ==
    << Item("F", "F", "actFind", <<>>, FALSE),
       Item("A", "a", "actAdvanced", AdvancedMenu, FALSE) >>

EditMenu ==
    << Item("T", "t", "actCut", <<>>, FALSE),
       Item("F", "F", NoAction, FindMenu, FALSE) >>

FileMenu ==
    << Item("N", "n", "actNew", <<>>, FALSE),
       Separator,
       Item("S", "S", "actSave", <<>>, TRUE),
       Item("X", "x", "actExit", <<>>, FALSE) >>

DeadMenu ==
    << Separator,
       Item("D", "d", "actDead", <<>>, TRUE) >>

LockedMenu ==
    << Item("L", "l", "actLocked", AdvancedMenu, TRUE),
       Item("K", "k", "actK", <<>>, FALSE) >>

\* the example application's shape: File, Edit (nested Find > Advanced), Help
MainBar ==
    << Item("F", "F", NoAction, FileMenu, FALSE),
       Item("E", "E", NoAction, EditMenu, FALSE),
       Item("H", "H", "actHelp", <<>>, FALSE) >>

\* separator first, a disabled entry, an entry with both submenu and action
MixedBar ==
    << Separator,
       Item("O", "o", "actLower", <<>>, FALSE),
       Item("P", "O", "actUpper", <<>>, FALSE),
       Item("S", "S", "actSave", DeadMenu, TRUE),
       Item("E", "E", "actEdit", LockedMenu, FALSE) >>

\* no selectable entry at all
DeadBar ==
    << Item("S", "S", "actSave", DeadMenu, TRUE),
       Separator >>

EmptyBar == <<>>

MenuSet == {MainBar, MixedBar, DeadBar, EmptyBar}

(***************************************************************************)
(* Messages                                                                *)
(***************************************************************************)
NavKeys == {"left", "right", "up", "down", "enter", "esc"}
CharKeys == {"F", "f", "E", "o", "O", "s", "S", "d", "a", "z"}
Keys == NavKeys \cup CharKeys

MouseTypes == {"MousePress", "MouseRelease", "MouseMotion"}

KeyMsg(k) == [kind |-> "key", key |-> k, Type |-> "", X |-> 0, Y |-> 0]
MouseMsg(t, x, y) == [kind |-> "mouse", key |-> "", Type |-> t, X |-> x, Y |-> y]

\* any other tea.Msg the host forwards (tickMsg, actionMsg, WindowSizeMsg)
OtherMsg == [kind |-> "other", key |-> "", Type |-> "", X |-> 0, Y |-> 0]

NoMsg == [kind |-> "none", key |-> "", Type |-> "", X |-> 0, Y |-> 0]

\* strings.EqualFold over the key alphabet: simple case folding
Fold(s) ==
    CASE s = "F" -> "f"
      [] s = "E" -> "e"
      [] s = "O" -> "o"
      [] s = "S" -> "s"
      [] s = "H" -> "h"
      [] OTHER -> s

EqualFold(a, b) == Fold(a) = Fold(b)

(***************************************************************************)
(* Model                                                                   *)
(***************************************************************************)
New(items) ==
    [Items |-> items, Styles |-> "DefaultStyles", OpenSubMenu |-> -1,
     Selection |-> 0, Active |-> TRUE, SubMenuState |-> Nil,
     isDropdown |-> FALSE]

\* dereference of a non-nil m.SubMenuState
Sub(m) == m.SubMenuState[1]

Ref(sub) == <<sub>>

\* variant: a dropdown never reports an open submenu of its own
hasOpenSubmenu_Never(m) == FALSE

hasOpenSubmenu(m) == m.OpenSubMenu # -1 /\ m.SubMenuState # Nil

RECURSIVE wantsToHandleRight(_)
wantsToHandleRight(m) ==
    IF m.OpenSubMenu # -1 /\ m.SubMenuState # Nil
    THEN wantsToHandleRight(Sub(m))
    ELSE Len(m.Items) > 0 /\ Len(At(m.Items, m.Selection).SubMenu) > 0

\* variant: an already open child is kept when another entry is opened
openCurrentSelection_KeepsChild(m) ==
    LET item == At(m.Items, m.Selection) IN
    IF Len(item.SubMenu) > 0
    THEN [m EXCEPT !.OpenSubMenu = m.Selection,
                   !.SubMenuState =
                       IF m.SubMenuState # Nil THEN m.SubMenuState
                       ELSE Ref([New(item.SubMenu) EXCEPT !.isDropdown = TRUE,
                                                          !.Styles = m.Styles])]
    ELSE m

\* variant: the selected entry is opened whether or not it has a submenu
openCurrentSelection_Unguarded(m) ==
    LET item == At(m.Items, m.Selection) IN
    [m EXCEPT !.OpenSubMenu = m.Selection,
              !.SubMenuState =
                  Ref([New(item.SubMenu) EXCEPT !.isDropdown = TRUE,
                                                !.Styles = m.Styles])]

openCurrentSelection(m) ==
    LET item == At(m.Items, m.Selection) IN
    IF Len(item.SubMenu) > 0
    THEN [m EXCEPT !.OpenSubMenu = m.Selection,
                   !.SubMenuState =
                       Ref([New(item.SubMenu) EXCEPT !.isDropdown = TRUE,
                                                     !.Styles = m.Styles])]
    ELSE m

(***************************************************************************)
(* Results of a call: the returned Model, the returned tea.Cmd (the token  *)
(* of the entry's Action, or nil), whether the call panicked with an index *)
(* out of range, the iterations of the skip loop it ran (loopItems is the  *)
(* Items of the node that ran it, empty when no loop ran), and what        *)
(* checkMouse reported for a mouse message.                                *)
(***************************************************************************)
R(m, cmd) ==
    [m |-> m, cmd |-> cmd, panic |-> FALSE, steps |-> 0, loopItems |-> <<>>,
     handled |-> FALSE]

Panic(m) ==
    [m |-> m, cmd |-> NoCmd, panic |-> TRUE, steps |-> 0, loopItems |-> <<>>,
     handled |-> FALSE]

\* variant: moving past the last entry stays on the last entry
Wrap_Clamp(items, s, dir) ==
    IF dir < 0
    THEN (IF s < 0 THEN Len(items) - 1 ELSE s)
    ELSE (IF s >= Len(items) THEN Len(items) - 1 ELSE s)

\* variant: no wraparound test
Wrap_None(items, s, dir) == s

\* m.Selection-- / m.Selection++ followed by the wraparound test
Wrap(items, s, dir) ==
    IF dir < 0
    THEN (IF s < 0 THEN Len(items) - 1 ELSE s)
    ELSE (IF s >= Len(items) THEN 0 ELSE s)

\* variant: the loop has no "if m.Selection == start { break }"
RECURSIVE SkipLoop_NoStartGuard(_, _, _, _, _)
SkipLoop_NoStartGuard(items, sel, start, dir, steps) ==
    IF ~InRange(items, sel)
    THEN [sel |-> sel, panic |-> TRUE, steps |-> steps]
    ELSE IF Selectable(At(items, sel))
    THEN [sel |-> sel, panic |-> FALSE, steps |-> steps]
    ELSE LET n == Wrap(items, sel + dir, dir) IN
         IF steps + 1 >= Len(items) + LoopSlack
         THEN [sel |-> n, panic |-> FALSE, steps |-> steps + 1]
         ELSE SkipLoop_NoStartGuard(items, n, start, dir, steps + 1)

\* for m.Items[m.Selection].IsSeparator || m.Items[m.Selection].Disabled { ... }
RECURSIVE SkipLoop(_, _, _, _, _)
SkipLoop(items, sel, start, dir, steps) ==
    IF ~InRange(items, sel)
    THEN [sel |-> sel, panic |-> TRUE, steps |-> steps]
    ELSE IF Selectable(At(items, sel))
    THEN [sel |-> sel, panic |-> FALSE, steps |-> steps]
    ELSE LET n == Wrap(items, sel + dir, dir) IN
         IF n = start \/ steps + 1 >= Len(items) + LoopSlack
         THEN [sel |-> n, panic |-> FALSE, steps |-> steps + 1]
         ELSE SkipLoop(items, n, start, dir, steps + 1)

\* the movement block shared by left/right on the bar and up/down in a dropdown
Moved(m, l) ==
    IF l.panic
    THEN Panic(m)
    ELSE [R([m EXCEPT !.Selection = l.sel], NoCmd)
             EXCEPT !.steps = l.steps, !.loopItems = m.Items]

MoveSelection(m, dir) ==
    Moved(m, SkipLoop(m.Items, Wrap(m.Items, m.Selection + dir, dir),
                      Wrap(m.Items, m.Selection + dir, dir), dir, 0))

OpenMoved(r) == IF r.panic THEN r ELSE [r EXCEPT !.m = openCurrentSelection(r.m)]

\* bar-level left/right while a dropdown is open: move, then open the new selection
BarSwitch(m, dir) == OpenMoved(MoveSelection(m, dir))

\* variant: disabled entries and separators take part in hotkey matching
ExactMatch_AnyEntry(items, key) ==
    LET S == {i \in 0..(Len(items) - 1) :
                 /\ At(items, i).Hotkey # ""
                 /\ key = At(items, i).Hotkey}
    IN  IF S = {} THEN -1 ELSE CHOOSE i \in S : \A j \in S : i <= j

\* index of the first entry matching the key, -1 when none does
ExactMatch(items, key) ==
    LET S == {i \in 0..(Len(items) - 1) :
                 /\ Selectable(At(items, i))
                 /\ At(items, i).Hotkey # ""
                 /\ key = At(items, i).Hotkey}
    IN  IF S = {} THEN -1 ELSE CHOOSE i \in S : \A j \in S : i <= j

FoldMatch(items, key) ==
    LET S == {i \in 0..(Len(items) - 1) :
                 /\ Selectable(At(items, i))
                 /\ At(items, i).Hotkey # ""
                 /\ EqualFold(key, At(items, i).Hotkey)}
    IN  IF S = {} THEN -1 ELSE CHOOSE i \in S : \A j \in S : i <= j

\* variant: the action of a matched entry is emitted before its submenu is looked at
HotkeyActivate_ActionFirst(m, i) ==
    LET item == At(m.Items, i)
        m1 == [m EXCEPT !.Selection = i]
    IN  IF item.Action # NoAction THEN R(m1, item.Action)
        ELSE IF Len(item.SubMenu) > 0 THEN R(openCurrentSelection(m1), NoCmd)
        ELSE R(m1, NoCmd)

\* body of a hotkey match on entry i
HotkeyActivate(m, i) ==
    LET item == At(m.Items, i)
        m1 == [m EXCEPT !.Selection = i]
    IN  IF Len(item.SubMenu) > 0 THEN R(openCurrentSelection(m1), NoCmd)
        ELSE IF item.Action # NoAction THEN R(m1, item.Action)
        ELSE R(m1, NoCmd)

\* variant: esc does not deactivate a dropdown
EscKey_DropdownStays(m) ==
    R([m EXCEPT !.OpenSubMenu = -1, !.SubMenuState = Nil], NoCmd)

\* case "esc"
EscKey(m) ==
    IF m.isDropdown THEN R([m EXCEPT !.Active = FALSE], NoCmd)
    ELSE R([m EXCEPT !.OpenSubMenu = -1, !.SubMenuState = Nil], NoCmd)

\* variant: enter does not test Disabled
EnterKey_NoDisabledTest(m) ==
    IF Len(m.Items) > 0
    THEN LET item == At(m.Items, m.Selection) IN
         IF Len(item.SubMenu) > 0 THEN R(openCurrentSelection(m), NoCmd)
         ELSE IF item.Action # NoAction THEN R(m, item.Action)
         ELSE R(m, NoCmd)
    ELSE R(m, NoCmd)

\* case "enter"
EnterKey(m) ==
    IF Len(m.Items) > 0
    THEN LET item == At(m.Items, m.Selection) IN
         IF item.Disabled THEN R(m, NoCmd)
         ELSE IF Len(item.SubMenu) > 0 THEN R(openCurrentSelection(m), NoCmd)
         ELSE IF item.Action # NoAction THEN R(m, item.Action)
         ELSE R(m, NoCmd)
    ELSE R(m, NoCmd)

\* switch key { ... } of a node that has no open submenu
KeySwitch(m, key) ==
    CASE key = "left" ->
           IF m.isDropdown THEN R([m EXCEPT !.Active = FALSE], NoCmd)
           ELSE MoveSelection(m, -1)
      [] key = "right" ->
           IF m.isDropdown
           THEN (IF Len(At(m.Items, m.Selection).SubMenu) > 0
                 THEN R(openCurrentSelection(m), NoCmd)
                 ELSE R(m, NoCmd))
           ELSE MoveSelection(m, 1)
      [] key = "up" ->
           IF m.isDropdown THEN MoveSelection(m, -1) ELSE R(m, NoCmd)
      [] key = "down" ->
           IF m.isDropdown THEN MoveSelection(m, 1)
           ELSE IF Len(m.Items) > 0 THEN R(openCurrentSelection(m), NoCmd)
           ELSE R(m, NoCmd)
      [] key = "enter" -> EnterKey(m)
      [] key = "esc" -> EscKey(m)
      [] OTHER -> R(m, NoCmd)

\* variant: the case-insensitive pass runs before the exact pass
HandleKey_FoldFirst(m, key) ==
    IF FoldMatch(m.Items, key) # -1 THEN HotkeyActivate(m, FoldMatch(m.Items, key))
    ELSE IF ExactMatch(m.Items, key) # -1 THEN HotkeyActivate(m, ExactMatch(m.Items, key))
    ELSE KeySwitch(m, key)

\* case tea.KeyMsg of a node that has no open submenu: hotkeys, then the switch
HandleKey(m, key) ==
    IF ExactMatch(m.Items, key) # -1 THEN HotkeyActivate(m, ExactMatch(m.Items, key))
    ELSE IF FoldMatch(m.Items, key) # -1 THEN HotkeyActivate(m, FoldMatch(m.Items, key))
    ELSE KeySwitch(m, key)

(***************************************************************************)
(* Geometry used by hit testing                                            *)
(***************************************************************************)
\* lipgloss.Width of an unstyled single-width string
Width(s) == Len(s)

Max(S) == IF S = {} THEN 0 ELSE CHOOSE x \in S : \A y \in S : y <= x

Min(S) == CHOOSE x \in S : \A y \in S : x <= y

measureItem(m, i) ==
    IF At(m.Items, i).IsSeparator
    THEN Width("|") + ItemPadding
    ELSE Width(At(m.Items, i).Label) + ItemPadding

getDropdownDimensions(m) ==
    LET idx == 1..Len(m.Items)
        maxLabelWidth == Max({Width(m.Items[k].Label) : k \in idx})
        maxShortcutWidth == Max({Width(m.Items[k].Shortcut) : k \in idx})
        hasSubmenu == \E k \in idx : Len(m.Items[k].SubMenu) > 0
        maxRightWidth == IF hasSubmenu /\ maxShortcutWidth < 2
                         THEN 2 ELSE maxShortcutWidth
        innerContentWidth == maxLabelWidth + 2 + maxRightWidth
    IN  [width |-> innerContentWidth + ItemPadding + FrameW,
         height |-> Len(m.Items) + FrameH]

RECURSIVE SumMeasure(_, _)
SumMeasure(m, n) == IF n = 0 THEN 0 ELSE SumMeasure(m, n - 1) + measureItem(m, n - 1)

\* origin at which the open submenu of m is hit-tested
SubOrigin(m, baseX, baseY) ==
    IF m.isDropdown
    THEN [x |-> baseX + getDropdownDimensions(m).width,
          y |-> baseY + TopBorder + m.OpenSubMenu * ItemHeight]
    ELSE [x |-> baseX + SumMeasure(m, m.OpenSubMenu),
          y |-> baseY + BarHeight]

H(m, handled, cmd) == [m |-> m, handled |-> handled, cmd |-> cmd]

\* "2. Check ourselves", dropdown branch, for the entry row i that was hit
DropdownHit(m, msg, i) ==
    IF At(m.Items, i).IsSeparator \/ At(m.Items, i).Disabled
    THEN H(m, TRUE, NoCmd)
    ELSE LET m1 == [m EXCEPT !.Selection = i] IN
         IF msg.Type = "MouseRelease"
         THEN (IF Len(At(m.Items, i).SubMenu) > 0
               THEN H(openCurrentSelection(m1), TRUE, NoCmd)
               ELSE IF At(m.Items, i).Action # NoAction
               THEN H(m1, TRUE, At(m.Items, i).Action)
               ELSE H(m1, TRUE, NoCmd))
         ELSE IF msg.Type = "MouseMotion"
         THEN (IF m.OpenSubMenu # -1 /\ m.OpenSubMenu # i
               THEN H([m1 EXCEPT !.OpenSubMenu = -1, !.SubMenuState = Nil], TRUE, NoCmd)
               ELSE H(m1, TRUE, NoCmd))
         ELSE H(m1, TRUE, NoCmd)

\* variant: a release on the bar does not activate it
BarHit_NoActivate(m, msg, i) ==
    LET m1 == [m EXCEPT !.Selection = i] IN
    IF msg.Type = "MouseRelease"
    THEN IF Len(At(m.Items, i).SubMenu) > 0
         THEN (IF m.OpenSubMenu = i
               THEN H([m1 EXCEPT !.OpenSubMenu = -1, !.SubMenuState = Nil], TRUE, NoCmd)
               ELSE H(openCurrentSelection(m1), TRUE, NoCmd))
         ELSE IF At(m.Items, i).Action # NoAction
         THEN H(m1, TRUE, At(m.Items, i).Action)
         ELSE H(m1, TRUE, NoCmd)
    ELSE IF msg.Type = "MouseMotion"
    THEN (IF m.Active /\ m.OpenSubMenu # -1 /\ m.OpenSubMenu # i
          THEN H(openCurrentSelection(m1), TRUE, NoCmd)
          ELSE H(m1, TRUE, NoCmd))
    ELSE H(m1, TRUE, NoCmd)

\* "2. Check ourselves", bar branch, for the entry i whose columns were hit
BarHit(m, msg, i) ==
    LET m1 == [m EXCEPT !.Selection = i] IN
    IF msg.Type = "MouseRelease"
    THEN LET m2 == [m1 EXCEPT !.Active = TRUE] IN
         IF Len(At(m.Items, i).SubMenu) > 0
         THEN (IF m.OpenSubMenu = i
               THEN H([m2 EXCEPT !.OpenSubMenu = -1, !.SubMenuState = Nil], TRUE, NoCmd)
               ELSE H(openCurrentSelection(m2), TRUE, NoCmd))
         ELSE IF At(m.Items, i).Action # NoAction
         THEN H(m2, TRUE, At(m.Items, i).Action)
         ELSE H(m2, TRUE, NoCmd)
    ELSE IF msg.Type = "MouseMotion"
    THEN (IF m.Active /\ m.OpenSubMenu # -1 /\ m.OpenSubMenu # i
          THEN H(openCurrentSelection(m1), TRUE, NoCmd)
          ELSE H(m1, TRUE, NoCmd))
    ELSE H(m1, TRUE, NoCmd)

\* hit test of the node itself, after its open submenu did not claim the event
CheckSelf(m, msg, baseX, baseY) ==
    IF m.isDropdown
    THEN LET d == getDropdownDimensions(m) IN
         IF /\ msg.X >= baseX /\ msg.X < baseX + d.width
            /\ msg.Y >= baseY /\ msg.Y < baseY + d.height
         THEN LET localY == msg.Y - baseY - TopBorder
                  rows == {i \in 0..(Len(m.Items) - 1) :
                              localY >= i * ItemHeight /\ localY < (i + 1) * ItemHeight}
              IN  IF rows = {} THEN H(m, TRUE, NoCmd)
                  ELSE DropdownHit(m, msg, CHOOSE i \in rows : TRUE)
         ELSE H(m, FALSE, NoCmd)
    ELSE IF msg.Y >= baseY /\ msg.Y < baseY + BarHeight
         THEN LET cols == {i \in 0..(Len(m.Items) - 1) :
                              /\ msg.X >= baseX + SumMeasure(m, i)
                              /\ msg.X < baseX + SumMeasure(m, i) + measureItem(m, i)}
              IN  IF cols = {} THEN H(m, TRUE, NoCmd)
                  ELSE BarHit(m, msg, CHOOSE i \in cols : TRUE)
         ELSE H(m, FALSE, NoCmd)

\* "1. Check open submenu first": r is what the submenu's checkMouse returned
AfterSubCheck(m, msg, baseX, baseY, r) ==
    IF r.handled
    THEN H([m EXCEPT !.SubMenuState = Ref(r.m)], TRUE, r.cmd)
    ELSE CheckSelf(m, msg, baseX, baseY)

RECURSIVE checkMouse(_, _, _, _)
checkMouse(m, msg, baseX, baseY) ==
    IF m.OpenSubMenu # -1 /\ m.SubMenuState # Nil
    THEN AfterSubCheck(m, msg, baseX, baseY,
                       checkMouse(Sub(m), msg, SubOrigin(m, baseX, baseY).x,
                                  SubOrigin(m, baseX, baseY).y))
    ELSE CheckSelf(m, msg, baseX, baseY)

\* variant: a click outside only deactivates the bar
ClickOutside_ActiveOnly(msg, r) ==
    IF ~r.handled /\ msg.Type = "MouseRelease"
    THEN [R([r.m EXCEPT !.Active = FALSE], r.cmd) EXCEPT !.handled = r.handled]
    ELSE [R(r.m, r.cmd) EXCEPT !.handled = r.handled]

\* "If click outside, close menus": r is what checkMouse returned
ClickOutside(msg, r) ==
    IF ~r.handled /\ msg.Type = "MouseRelease"
    THEN [R([r.m EXCEPT !.Active = FALSE, !.OpenSubMenu = -1, !.SubMenuState = Nil],
            r.cmd) EXCEPT !.handled = r.handled]
    ELSE [R(r.m, r.cmd) EXCEPT !.handled = r.handled]

handleMouse(m, msg) == ClickOutside(msg, checkMouse(m, msg, 0, 0))

\* variant: dropping a closed submenu leaves OpenSubMenu as it was
AfterDelegate_KeepsIndex(m, r) ==
    IF r.panic THEN [r EXCEPT !.m = m]
    ELSE IF ~r.m.Active
    THEN [r EXCEPT !.m = [m EXCEPT !.SubMenuState = Nil]]
    ELSE [r EXCEPT !.m = [m EXCEPT !.SubMenuState = Ref(r.m)]]

\* variant: a submenu that closed itself is stored back like any other
AfterDelegate_KeepsInactive(m, r) ==
    IF r.panic THEN [r EXCEPT !.m = m]
    ELSE [r EXCEPT !.m = [m EXCEPT !.SubMenuState = Ref(r.m)]]

\* the submenu's result stored back; a submenu that closed itself is dropped
AfterDelegate(m, r) ==
    IF r.panic THEN [r EXCEPT !.m = m]
    ELSE IF ~r.m.Active
    THEN [r EXCEPT !.m = [m EXCEPT !.OpenSubMenu = -1, !.SubMenuState = Nil]]
    ELSE [r EXCEPT !.m = [m EXCEPT !.SubMenuState = Ref(r.m)]]

\* variant: an inactive node handles keys like an active one
Inactive_Never(m) == FALSE

\* if !m.Active { return m, nil }
Inactive(m) == ~m.Active

\* variant: every node matches its own hotkeys before it delegates
RECURSIVE Update_HotkeysFirst(_, _)
Update_HotkeysFirst(m, msg) ==
    IF msg.kind = "mouse" THEN handleMouse(m, msg)
    ELSE IF Inactive(m) THEN R(m, NoCmd)
    ELSE IF /\ msg.kind = "key"
            /\ (ExactMatch(m.Items, msg.key) # -1 \/ FoldMatch(m.Items, msg.key) # -1)
    THEN HandleKey(m, msg.key)
    ELSE IF m.OpenSubMenu # -1 /\ m.SubMenuState # Nil
    THEN IF /\ ~m.isDropdown /\ msg.kind = "key" /\ msg.key = "left"
            /\ ~hasOpenSubmenu(Sub(m))
         THEN BarSwitch(m, -1)
         ELSE IF /\ ~m.isDropdown /\ msg.kind = "key" /\ msg.key = "right"
                 /\ ~wantsToHandleRight(Sub(m))
         THEN BarSwitch(m, 1)
         ELSE AfterDelegate(m, Update_HotkeysFirst(Sub(m), msg))
    ELSE IF msg.kind = "key" THEN HandleKey(m, msg.key)
    ELSE R(m, NoCmd)

RECURSIVE Update(_, _)
Update(m, msg) ==
    IF msg.kind = "mouse" THEN handleMouse(m, msg)
    ELSE IF Inactive(m) THEN R(m, NoCmd)
    ELSE IF m.OpenSubMenu # -1 /\ m.SubMenuState # Nil
    THEN IF /\ ~m.isDropdown /\ msg.kind = "key" /\ msg.key = "left"
            /\ ~hasOpenSubmenu(Sub(m))
         THEN BarSwitch(m, -1)
         ELSE IF /\ ~m.isDropdown /\ msg.kind = "key" /\ msg.key = "right"
                 /\ ~wantsToHandleRight(Sub(m))
         THEN BarSwitch(m, 1)
         ELSE AfterDelegate(m, Update(Sub(m), msg))
    ELSE IF msg.kind = "key" THEN HandleKey(m, msg.key)
    ELSE R(m, NoCmd)

(***************************************************************************)
(* The caller's copy. Update has a value receiver, so the caller's Model is  *)
(* copied on entry, but SubMenuState is a pointer and the copy shares the    *)
(* child with the caller. checkMouse has a pointer receiver and is called on *)
(* m.SubMenuState itself, so what it writes to the child is written to the   *)
(* caller's child. The key path copies the child before it updates it.       *)
(***************************************************************************)
\* the Model value the caller passed to Update, as it is after the call
CallerCopy(m, msg) ==
    IF msg.kind = "mouse" /\ m.OpenSubMenu # -1 /\ m.SubMenuState # Nil
    THEN [m EXCEPT !.SubMenuState =
             Ref(checkMouse(Sub(m), msg, SubOrigin(m, 0, 0).x, SubOrigin(m, 0, 0).y).m)]
    ELSE m

(***************************************************************************)
(* The entry under the pointer: the level of the node in the open chain    *)
(* (0 is the bar) and the index of the entry whose cells contain the       *)
(* pointer, with the deepest open dropdown tested first.                   *)
(***************************************************************************)
NoHit == [level |-> -1, index |-> -1]

\* index of the entry of m drawn at the pointer's cell, -1 when there is none
EntryUnder(m, msg, baseX, baseY) ==
    IF m.isDropdown
    THEN LET row == msg.Y - baseY - TopBorder IN
         IF /\ msg.X >= baseX /\ msg.X < baseX + getDropdownDimensions(m).width
            /\ row >= 0 /\ row < Len(m.Items) * ItemHeight
         THEN row \div ItemHeight
         ELSE -1
    ELSE LET cols == {i \in 0..(Len(m.Items) - 1) :
                         /\ msg.X >= baseX + SumMeasure(m, i)
                         /\ msg.X < baseX + SumMeasure(m, i + 1)}
         IN  IF msg.Y >= baseY /\ msg.Y < baseY + BarHeight /\ cols # {}
             THEN CHOOSE i \in cols : TRUE
             ELSE -1

\* h is the hit found in the open submenu, e the entry of the node itself
Deeper(level, h, e) ==
    IF h.index # -1 THEN h
    ELSE IF e = -1 THEN NoHit
    ELSE [level |-> level, index |-> e]

RECURSIVE HitOf(_, _, _, _, _)

HitBelow(m, msg, o, level) == HitOf(Sub(m), msg, o.x, o.y, level + 1)

HitOf(m, msg, baseX, baseY, level) ==
    IF msg.kind # "mouse" THEN NoHit
    ELSE Deeper(level,
                IF m.OpenSubMenu # -1 /\ m.SubMenuState # Nil
                THEN HitBelow(m, msg, SubOrigin(m, baseX, baseY), level)
                ELSE NoHit,
                EntryUnder(m, msg, baseX, baseY))

(***************************************************************************)
(* Rendering. A rendered block is a sequence of rows, a row the string of  *)
(* its visible cells. The default styles change colours and add padding    *)
(* and a border; colours occupy no cell and are left out.                   *)
(***************************************************************************)
\* strings.Repeat
RECURSIVE Repeat(_, _)
Repeat(s, n) == IF n <= 0 THEN "" ELSE s \o Repeat(s, n - 1)

\* Render of a style with Padding(0, 1) on one line of text
PadH(s) == " " \o s \o " "

\* pre + hot + post: the label's own cells, the hotkey underlined
renderLabel(item) == item.Label

\* lipgloss.Width and lipgloss.Height of a block
BlockWidth(rows) == Max({Len(rows[k]) : k \in 1..Len(rows)})

BlockHeight(rows) == Len(rows)

\* lipgloss.JoinVertical(lipgloss.Left, ...): rows padded on the right to the widest
JoinVertical(rows) ==
    [k \in 1..Len(rows) |-> rows[k] \o Repeat(" ", BlockWidth(rows) - Len(rows[k]))]

\* Render of Styles.Dropdown: a border of one cell on every side
Border(rows) ==
    << "+" \o Repeat("-", BlockWidth(rows)) \o "+" >>
    \o [k \in 1..Len(rows) |-> "|" \o rows[k] \o "|"]
    \o << "+" \o Repeat("-", BlockWidth(rows)) \o "+" >>

\* variant: an entry with neither shortcut nor submenu gets no right column
DropdownRow_NoFiller(m, k) ==
    LET idx == 1..Len(m.Items)
        item == m.Items[k]
        maxLabelWidth == Max({Width(m.Items[j].Label) : j \in idx})
        maxShortcutWidth == Max({Width(m.Items[j].Shortcut) : j \in idx})
        hasSubmenu == \E j \in idx : Len(m.Items[j].SubMenu) > 0
        maxRightWidth == IF hasSubmenu /\ maxShortcutWidth < 2
                         THEN 2 ELSE maxShortcutWidth
        innerContentWidth == maxLabelWidth + 2 + maxRightWidth
        standardWidth == Width(PadH(Repeat(" ", innerContentWidth)))
        label == renderLabel(item)
        padding == Repeat(" ", maxLabelWidth - Width(label) + 2)
        rightContent ==
            IF item.Shortcut # ""
            THEN Repeat(" ", maxRightWidth - Width(item.Shortcut)) \o item.Shortcut
            ELSE IF Len(item.SubMenu) > 0
            THEN Repeat(" ", maxRightWidth - 2) \o " >"
            ELSE ""
    IN  IF item.IsSeparator
        THEN Repeat("-", standardWidth)
        ELSE PadH(label \o padding \o rightContent)

\* the row of entry k (1-based) of a dropdown, before the rows are joined
DropdownRow(m, k) ==
    LET idx == 1..Len(m.Items)
        item == m.Items[k]
        maxLabelWidth == Max({Width(m.Items[j].Label) : j \in idx})
        maxShortcutWidth == Max({Width(m.Items[j].Shortcut) : j \in idx})
        hasSubmenu == \E j \in idx : Len(m.Items[j].SubMenu) > 0
        maxRightWidth == IF hasSubmenu /\ maxShortcutWidth < 2
                         THEN 2 ELSE maxShortcutWidth
        innerContentWidth == maxLabelWidth + 2 + maxRightWidth
        standardWidth == Width(PadH(Repeat(" ", innerContentWidth)))
        label == renderLabel(item)
        padding == Repeat(" ", maxLabelWidth - Width(label) + 2)
        rightContent ==
            IF item.Shortcut # ""
            THEN Repeat(" ", maxRightWidth - Width(item.Shortcut)) \o item.Shortcut
            ELSE IF Len(item.SubMenu) > 0
            THEN Repeat(" ", maxRightWidth - 2) \o " >"
            ELSE IF maxRightWidth > 0 THEN Repeat(" ", maxRightWidth)
            ELSE ""
    IN  IF item.IsSeparator
        THEN Repeat("-", standardWidth)
        ELSE PadH(label \o padding \o rightContent)

renderSingleDropdown(m) ==
    Border(JoinVertical([k \in 1..Len(m.Items) |-> DropdownRow(m, k)]))

\* variant: the child's layers come before the parent's own
RECURSIVE getLayersRecursive_ChildFirst(_, _, _)
getLayersRecursive_ChildFirst(m, baseX, baseY) ==
    LET currentView == renderSingleDropdown(m)
        own == << [Content |-> currentView, X |-> baseX, Y |-> baseY] >>
    IN  IF m.OpenSubMenu # -1 /\ m.SubMenuState # Nil
        THEN getLayersRecursive_ChildFirst(Sub(m), baseX + BlockWidth(currentView),
                                           baseY + m.Selection + 1) \o own
        ELSE own

RECURSIVE getLayersRecursive(_, _, _)
getLayersRecursive(m, baseX, baseY) ==
    LET currentView == renderSingleDropdown(m)
        own == << [Content |-> currentView, X |-> baseX, Y |-> baseY] >>
    IN  IF m.OpenSubMenu # -1 /\ m.SubMenuState # Nil
        THEN own \o getLayersRecursive(Sub(m), baseX + BlockWidth(currentView),
                                       baseY + m.Selection + 1)
        ELSE own

\* Styles.Bar has neither padding nor border: GetHorizontalFrameSize()
BarFrame == 0

\* views[0..n-1] joined by lipgloss.JoinHorizontal
RECURSIVE BarViews(_, _)
BarViews(m, n) ==
    IF n = 0 THEN ""
    ELSE BarViews(m, n - 1)
         \o (IF At(m.Items, n - 1).IsSeparator THEN PadH("|")
             ELSE PadH(renderLabel(At(m.Items, n - 1))))

\* variant: the spacer does not leave room for the right-side text
renderBarContent_SpacerIgnoresRight(m, right, width) ==
    LET views == BarViews(m, Len(m.Items))
        spacerWidth == (width - BarFrame) - Width(views)
        spacer == IF width > 0 /\ spacerWidth > 0 THEN Repeat(" ", spacerWidth) ELSE ""
    IN  << views \o spacer \o right >>

renderBarContent(m, right, width) ==
    LET views == BarViews(m, Len(m.Items))
        itemsWidth == Width(views)
        rightWidth == Width(right)
        availableWidth == width - BarFrame
        spacerWidth == availableWidth - itemsWidth - rightWidth
        spacer == IF width > 0 /\ spacerWidth > 0 THEN Repeat(" ", spacerWidth) ELSE ""
    IN  << views \o spacer \o right >>

RECURSIVE getDropdownOffsetTo(_, _)
getDropdownOffsetTo(m, n) ==
    IF n = 0 THEN 0
    ELSE getDropdownOffsetTo(m, n - 1) + Width(PadH(renderLabel(At(m.Items, n - 1))))

getDropdownOffset(m) ==
    IF m.OpenSubMenu = -1 THEN 0 ELSE getDropdownOffsetTo(m, m.OpenSubMenu)

ViewDropdownLayers(m) ==
    IF m.OpenSubMenu # -1 /\ m.SubMenuState # Nil
    THEN [layers |-> getLayersRecursive(Sub(m), 0, 0), offset |-> getDropdownOffset(m)]
    ELSE [layers |-> <<>>, offset |-> 0]

(***************************************************************************)
(* Overlay. A block of text is the sequence of its lines (strings.Split on  *)
(* "\n"), a line the sequence of its tokens: a token is one printable       *)
(* character, one or two cells wide, or one ANSI style sequence, which has  *)
(* width 0.                                                                 *)
(***************************************************************************)
RST == "ESC[0m"

RED == "ESC[31m"

BOLD == "ESC[1m"

\* ansiRegex
IsANSI(t) == t \in {RST, RED, BOLD}

\* two characters that take two cells each (U+4E16, U+754C)
WIDE == "U+4E16"

WIDE2 == "U+754C"

IsWide(t) == t \in {WIDE, WIDE2}

\* the cells a token takes
TokenWidth(t) == IF IsANSI(t) THEN 0 ELSE IF IsWide(t) THEN 2 ELSE 1

\* lipgloss.Width of a line
RECURSIVE LineWidth(_)
LineWidth(line) ==
    IF line = <<>> THEN 0 ELSE TokenWidth(Head(line)) + LineWidth(Tail(line))

\* strings.Repeat(" ", n)
Blanks(n) == [k \in 1..n |-> " "]

\* the cut is the first position at which the text before it is width cells wide
splitWithANSI(s, width) ==
    LET reached == {i \in 0..(Len(s) - 1) : LineWidth(SubSeq(s, 1, i)) >= width}
    IN  IF reached = {} THEN [head |-> s, tail |-> <<>>]
        ELSE LET i == Min(reached)
                 cut == IF LineWidth(SubSeq(s, 1, i)) = width THEN i
                        ELSE IF i = 0 THEN 0 ELSE i - 1
             IN  [head |-> SubSeq(s, 1, cut), tail |-> SubSeq(s, cut + 1, Len(s))]

\* the body of Overlay's loop for a row the background has
OverlayLine(bgLine, fgLine, x) ==
    IF LineWidth(bgLine) < x
    THEN bgLine \o Blanks(x - LineWidth(bgLine)) \o fgLine
    ELSE LET prefix == splitWithANSI(bgLine, x).head
             suffixStart == x + LineWidth(fgLine)
             preSuffix == splitWithANSI(bgLine, suffixStart).head
             suffix == splitWithANSI(bgLine, suffixStart).tail
             ansiCodes == SelectSeq(preSuffix, IsANSI)
             padding == IF LineWidth(prefix) < x
                        THEN Blanks(x - LineWidth(prefix)) ELSE <<>>
         IN  prefix \o padding \o fgLine \o ansiCodes \o suffix

\* Overlay's loop from foreground row i on
RECURSIVE OverlayFrom(_, _, _, _, _)
OverlayFrom(bgLines, fgLines, x, y, i) ==
    IF i >= Len(fgLines) THEN bgLines
    ELSE IF y + i >= Len(bgLines)
    THEN OverlayFrom(Append(bgLines, Blanks(x) \o fgLines[i + 1]), fgLines, x, y, i + 1)
    ELSE OverlayFrom([bgLines EXCEPT ![y + i + 1] = OverlayLine(@, fgLines[i + 1], x)],
                     fgLines, x, y, i + 1)

Overlay(bg, fg, x, y) == OverlayFrom(bg, fg, x, y, 0)

(***************************************************************************)
(* The program: a host holding one menubar Model and feeding it messages   *)
(***************************************************************************)
VARIABLES
    items,      \* the entries the bar was constructed from
    menubar,    \* the host's menubar.Model
    prev,       \* the Model passed to the last call
    held,       \* the caller's copy of that Model after the call returned
    lastMsg,    \* the message of the last call, without its coordinates
    handled,    \* the last call was a mouse event that checkMouse reported handled
    hit,        \* the entry of prev that was under the pointer of the last call
    cmd,        \* the tea.Cmd the last call returned
    panicked,   \* the last call panicked (index out of range)
    loopSteps,  \* iterations of the skip loop in the last call
    loopItems,  \* Items of the node whose skip loop ran, empty if none
    drawn,      \* what ViewDropdownLayers returns to the host's View for menubar
    escFrom,    \* open dropdown levels when a run of esc presses began, -1 outside a run
    escRun,     \* esc presses of the run so far
    call,       \* the arguments of a call of a rendering function
    result      \* what that call returned, NoResult before it returns

vars == <<items, menubar, prev, held, lastMsg, handled, hit, cmd, panicked, loopSteps,
          loopItems, drawn, escFrom, escRun, call, result>>

\* the variables that the delivery of a message to the menubar leaves alone
aux == <<escFrom, escRun, call, result>>

\* the variables of the host and its menubar
hostVars == <<items, menubar, prev, held, lastMsg, handled, hit, cmd, panicked, loopSteps,
              loopItems, drawn, escFrom, escRun>>

NoCall == [fn |-> "none"]

NoResult == <<>>

Init ==
    /\ items \in MenuSet
    /\ \E active \in BOOLEAN : menubar = [New(items) EXCEPT !.Active = active]
    /\ prev = menubar
    /\ held = menubar
    /\ lastMsg = NoMsg
    /\ handled = FALSE
    /\ hit = NoHit
    /\ cmd = NoCmd
    /\ panicked = FALSE
    /\ loopSteps = 0
    /\ loopItems = <<>>
    /\ drawn = ViewDropdownLayers(menubar)
    /\ escFrom = -1
    /\ escRun = 0
    /\ call = NoCall
    /\ result = NoResult

\* m.menubar, cmd = m.menubar.Update(msg)
Step(msg) ==
    /\ ~panicked
    /\ \E r \in {Update(menubar, msg)} :
       /\ prev' = menubar
       /\ held' = CallerCopy(menubar, msg)
       /\ lastMsg' = [msg EXCEPT !.X = 0, !.Y = 0]
       /\ handled' = r.handled
       /\ hit' = HitOf(menubar, msg, 0, 0, 0)
       /\ menubar' = r.m
       /\ cmd' = r.cmd
       /\ panicked' = r.panic
       /\ loopSteps' = r.steps
       /\ loopItems' = r.loopItems
       /\ drawn' = ViewDropdownLayers(r.m)
    /\ UNCHANGED items

Deliver(msg) == Step(msg) /\ UNCHANGED aux

\* a key press other than the host's esc
Key == \E k \in Keys \ {"esc"} : Deliver(KeyMsg(k))

\* a mouse press, release or motion at a cell
MouseXs == {3 * k + 1 : k \in 0..MaxCol}

Mouse == \E t \in MouseTypes, x \in MouseXs, y \in 0..MaxY : Deliver(MouseMsg(t, x, y))

\* a tick or another message the host forwards unchanged
Other == Deliver(OtherMsg)

\* esc forwarded to the menubar (a dropdown is open, or the host has no wrapper)
Esc == Deliver(KeyMsg("esc"))

\* variant: the host's esc never takes the focus away
HostToggle_NeverDeactivates ==
    /\ ~panicked
    /\ \/ ~menubar.Active
       \/ menubar.OpenSubMenu = -1
    /\ menubar' = [menubar EXCEPT !.Active = TRUE]
    /\ prev' = menubar
    /\ held' = menubar
    /\ lastMsg' = [KeyMsg("esc") EXCEPT !.kind = "host"]
    /\ handled' = FALSE
    /\ hit' = NoHit
    /\ cmd' = NoCmd
    /\ panicked' = FALSE
    /\ loopSteps' = 0
    /\ loopItems' = <<>>
    /\ UNCHANGED <<items, drawn>>

\* the example host's esc: activate an inactive bar, deactivate a bar with no open submenu
HostToggle ==
    /\ ~panicked
    /\ \/ ~menubar.Active
       \/ menubar.OpenSubMenu = -1
    /\ menubar' = IF ~menubar.Active
                  THEN [menubar EXCEPT !.Active = TRUE]
                  ELSE [menubar EXCEPT !.Active = FALSE]
    /\ prev' = menubar
    /\ held' = menubar
    /\ lastMsg' = [KeyMsg("esc") EXCEPT !.kind = "host"]
    /\ handled' = FALSE
    /\ hit' = NoHit
    /\ cmd' = NoCmd
    /\ panicked' = FALSE
    /\ loopSteps' = 0
    /\ loopItems' = <<>>
    /\ UNCHANGED <<items, drawn>>

HostEsc == HostToggle /\ UNCHANGED aux

\* the example host's whole esc case: toggle the focus, or forward to the menubar
WrappedEsc ==
    \/ HostToggle
    \/ /\ menubar.Active
       /\ menubar.OpenSubMenu # -1
       /\ Step(KeyMsg("esc"))

Next == Key \/ Mouse \/ Other \/ Esc \/ HostEsc

Spec == Init /\ [][Next]_vars

(***************************************************************************)
(* Vocabulary of the properties                                            *)
(***************************************************************************)
\* number of nodes reached from m through SubMenuState, m itself excluded
RECURSIVE Depth(_)
Depth(m) == IF m.SubMenuState = Nil THEN 0 ELSE 1 + Depth(Sub(m))

\* the node i pointers below m (NodeAt(m, 0) = m)
RECURSIVE NodeAt(_, _)
NodeAt(m, i) == IF i = 0 THEN m ELSE NodeAt(Sub(m), i - 1)

Deepest(m) == NodeAt(m, Depth(m))

Levels(m) == 0..Depth(m)

\* levels 0..i of a and b are the same menu positions: same entries opened above
SamePath(a, b, i) ==
    /\ i <= Depth(a) /\ i <= Depth(b)
    /\ \A j \in 0..(i - 1) : NodeAt(a, j).OpenSubMenu = NodeAt(b, j).OpenSubMenu

HasSelectable(its) == \E k \in 1..Len(its) : Selectable(its[k])

NumSelectable(its) == Cardinality({k \in 1..Len(its) : Selectable(its[k])})

\* the dropdown New builds for entry b of node m
FreshChild(m, b) ==
    [New(At(m.Items, b).SubMenu) EXCEPT !.isDropdown = TRUE, !.Styles = m.Styles]

IsKey(k) == lastMsg.kind = "key" /\ lastMsg.key = k

IsMouse(t) == lastMsg.kind = "mouse" /\ lastMsg.Type = t

(***************************************************************************)
(* Runs of esc presses under the example host: from any state the program  *)
(* reaches with an active bar, the user presses esc and nothing else.       *)
(***************************************************************************)
StartEscRun ==
    /\ escFrom = -1
    /\ ~panicked
    /\ menubar.Active
    /\ escFrom' = Depth(menubar)
    /\ escRun' = 0
    /\ UNCHANGED <<items, menubar, prev, held, lastMsg, handled, hit, cmd, panicked,
                   loopSteps, loopItems, drawn, call, result>>

EscPress ==
    /\ escFrom # -1
    /\ escRun < escFrom + 2
    /\ WrappedEsc
    /\ escRun' = escRun + 1
    /\ UNCHANGED <<escFrom, call, result>>

Program == escFrom = -1 /\ Next

NextEsc == Program \/ StartEscRun \/ EscPress

SpecEsc == Init /\ [][NextEsc]_vars

(***************************************************************************)
(* Calls of Overlay, as the host's View makes them for every layer: the     *)
(* arguments are drawn from small sets of blocks and offsets.               *)
(***************************************************************************)
MaxX == 3

MaxRow == 3

\* no message has been delivered to a menubar without entries
Idle ==
    /\ items = EmptyBar
    /\ menubar = New(EmptyBar)
    /\ prev = menubar
    /\ held = menubar
    /\ lastMsg = NoMsg
    /\ handled = FALSE
    /\ hit = NoHit
    /\ cmd = NoCmd
    /\ panicked = FALSE
    /\ loopSteps = 0
    /\ loopItems = <<>>
    /\ drawn = ViewDropdownLayers(menubar)
    /\ escFrom = -1
    /\ escRun = 0

\* background lines: empty, narrow, plain, a colour closed by a reset inside
\* the line, a colour opened inside the line and closed, styles left open
BgLines ==
    { <<>>,
      <<"a", "b">>,
      <<"a", "b", "c", "d", "e", "f">>,
      <<RED, "a", "b", "c", "d", RST, "e", "f">>,
      <<"a", RED, "b", "c", "d", "e", RST, "f">>,
      <<BOLD, "a", RED, "b", "c", "d", "e", "f">> }

\* foreground lines: empty, plain, styled and reset, styled and left open
FgLines ==
    { <<>>,
      <<"X">>,
      <<"X", "Y">>,
      <<BOLD, "X", "Y", RST>>,
      <<BOLD, "X", "Y">> }

\* blocks of one or two lines
BlocksOf(lines) == {<<l>> : l \in lines} \cup {<<l, k>> : l \in lines, k \in lines}

OverlayCalls ==
    [fn : {"Overlay"}, bg : BlocksOf(BgLines), fg : BlocksOf(FgLines),
     x : 0..MaxX, y : 0..MaxRow]

InitOverlay ==
    /\ Idle
    /\ call \in OverlayCalls
    /\ result = NoResult

\* fullView = menubar.Overlay(fullView, layer.Content, x+layer.X, 1+layer.Y)
Compose ==
    /\ call.fn = "Overlay"
    /\ result = NoResult
    /\ result' = Overlay(call.bg, call.fg, call.x, call.y)
    /\ UNCHANGED <<hostVars, call>>

SpecOverlay == InitOverlay /\ [][Compose]_vars

(***************************************************************************)
(* Calls of splitWithANSI and of Overlay on text with double-width          *)
(* characters.                                                              *)
(***************************************************************************)
MaxT == 5

\* styled text: plain, a wide character first, inside, last, two in a row,
\* style sequences before, after and around a wide character
SplitLines ==
    { <<>>,
      <<"a", "b", "c">>,
      <<WIDE, "a", "b">>,
      <<"a", WIDE, "b">>,
      <<"a", "b", WIDE>>,
      <<"a", WIDE>>,
      <<WIDE, WIDE2, "a">>,
      <<"a", RED, WIDE, RST, "b">>,
      <<RED, "a", WIDE, RST>>,
      <<BOLD, "a", "b", RST, WIDE2, "c">> }

SplitCalls == [fn : {"splitWithANSI"}, s : SplitLines, width : 0..MaxT]

\* background rows with wide characters at even and odd columns
WideBgLines ==
    { <<"a", "b", "c", "d", "e">>,
      <<"a", WIDE, "b", "c", "d">>,
      <<WIDE, WIDE2, "a", "b">>,
      <<"a", "b", "c", WIDE>>,
      <<RED, "a", WIDE, RST, "b", WIDE2>> }

WideFgLines == { <<"X">>, <<"X", "Y">>, <<WIDE2>> }

WideOverlayCalls ==
    [fn : {"Overlay"}, bg : BlocksOf(WideBgLines), fg : BlocksOf(WideFgLines),
     x : 0..MaxX, y : 0..MaxRow]

InitWide ==
    /\ Idle
    /\ call \in SplitCalls \cup WideOverlayCalls
    /\ result = NoResult

\* prefix, _ := splitWithANSI(bgLine, x)
Split ==
    /\ call.fn = "splitWithANSI"
    /\ result = NoResult
    /\ result' = splitWithANSI(call.s, call.width)
    /\ UNCHANGED <<hostVars, call>>

NextWide == Split \/ Compose

SpecWide == InitWide /\ [][NextWide]_vars

(***************************************************************************)
(* Calls of the rendering functions on menus drawn from small sets.         *)
(***************************************************************************)
MaxW == 40

WithShortcut(item, shortcut) == [item EXCEPT !.Shortcut = shortcut]

\* dropdown entries: with and without shortcut, submenu, label; a separator
RenderItems ==
    { WithShortcut(Item("New", "n", "actNew", <<>>, FALSE), "^N"),
      Item("Exit", "x", "actExit", <<>>, FALSE),
      Separator,
      Item("Recent", "r", NoAction, AdvancedMenu, FALSE),
      WithShortcut(Item("Save", "s", "actSave", <<>>, TRUE), "^SA"),
      WithShortcut(Item("A", "a", NoAction, AdvancedMenu, FALSE), "x"),
      Item("", "", NoAction, <<>>, FALSE) }

\* one to three entries
RenderMenus ==
    {<<a>> : a \in RenderItems}
    \cup {<<a, b>> : a \in RenderItems, b \in RenderItems}
    \cup {<<a, b, c>> : a \in RenderItems, b \in RenderItems, c \in RenderItems}

\* the bar of the example, with a separator
FileEditHelp ==
    << Item("File", "F", NoAction, FileMenu, FALSE),
       Item("Edit", "E", NoAction, EditMenu, FALSE),
       Separator,
       Item("Help", "H", "actHelp", <<>>, FALSE) >>

RenderCalls ==
    [fn : {"dropdown"}, items : RenderMenus]
    \cup [fn : {"bar"}, items : {FileEditHelp, MixedBar, EmptyBar},
          right : {"", "12:00:00", " 12:00:00 "}, width : 0..MaxW]

InitRender ==
    /\ Idle
    /\ call \in RenderCalls
    /\ result = NoResult

\* the dropdown Model openCurrentSelection builds for the entries
DropdownOf(its) == [New(its) EXCEPT !.isDropdown = TRUE]

\* a dropdown is rendered and measured
RenderDropdown ==
    /\ call.fn = "dropdown"
    /\ result = NoResult
    /\ result' = [view |-> renderSingleDropdown(DropdownOf(call.items)),
                  dims |-> getDropdownDimensions(DropdownOf(call.items))]
    /\ UNCHANGED <<hostVars, call>>

\* bar := m.menubar.ViewBarWithRightSide(rightSide, m.width)
RenderBar ==
    /\ call.fn = "bar"
    /\ result = NoResult
    /\ result' = renderBarContent(New(call.items), call.right, call.width)
    /\ UNCHANGED <<hostVars, call>>

NextRender == RenderDropdown \/ RenderBar

SpecRender == InitRender /\ [][NextRender]_vars

(***************************************************************************)
(* Properties                                                              *)
(***************************************************************************)

\* C1: a pointer release that neither the bar nor any open dropdown claims,
\* arriving while one or more dropdown levels are open, returns a root with
\* Active = false, OpenSubMenu = -1 and no child, and returns no command.
C1_ClickOutsideCollapses ==
    (IsMouse("MouseRelease") /\ ~handled /\ Depth(prev) >= 1)
        => /\ menubar.Active = FALSE
           /\ menubar.OpenSubMenu = -1
           /\ menubar.SubMenuState = Nil
           /\ cmd = NoCmd

\* an unclaimed release arrived while a chain of two or more dropdowns was open
C1_Witness ==
    /\ IsMouse("MouseRelease") /\ ~handled
    /\ Depth(prev) >= 2 /\ prev.Active
    /\ Depth(menubar) = 0 /\ ~menubar.Active

\* C2: whenever a call changes a node's open entry from A to a sibling B, the
\* node afterwards holds exactly the fresh dropdown of B: active, Selection 0,
\* no open grandchild, built from B's submenu; nothing of A's chain remains.
C2_SiblingReplacesChild ==
    \A i \in Levels(prev) :
        (/\ SamePath(prev, menubar, i)
         /\ NodeAt(prev, i).OpenSubMenu # -1
         /\ NodeAt(menubar, i).OpenSubMenu # -1
         /\ NodeAt(menubar, i).OpenSubMenu # NodeAt(prev, i).OpenSubMenu)
        => /\ NodeAt(menubar, i).SubMenuState # Nil
           /\ Sub(NodeAt(menubar, i))
                 = FreshChild(NodeAt(menubar, i), NodeAt(menubar, i).OpenSubMenu)
           /\ Depth(menubar) = i + 1

\* a sibling's submenu was opened on the bar while a two-level chain was open
C2_Witness ==
    /\ Depth(prev) >= 2
    /\ prev.OpenSubMenu # -1
    /\ menubar.OpenSubMenu # -1
    /\ menubar.OpenSubMenu # prev.OpenSubMenu
    /\ Depth(menubar) = 1

\* C3: at every node of the chain, OpenSubMenu = -1 exactly when SubMenuState
\* is nil.
C3_OpenIndexIffChild ==
    \A i \in Levels(menubar) :
        (NodeAt(menubar, i).OpenSubMenu = -1) <=> (NodeAt(menubar, i).SubMenuState = Nil)

\* a dropdown closed itself and its parent dropped it, under an open chain
C3_Witness ==
    /\ Depth(prev) >= 2
    /\ Depth(menubar) = Depth(prev) - 1
    /\ lastMsg.kind = "key"
    /\ Deepest(menubar).OpenSubMenu = -1

\* C4: at every node that has a selectable entry, Selection is the index of a
\* selectable (non-separator, non-disabled) entry, from construction onwards.
C4_SelectionOnSelectable ==
    \A i \in Levels(menubar) :
        HasSelectable(NodeAt(menubar, i).Items)
            => /\ InRange(NodeAt(menubar, i).Items, NodeAt(menubar, i).Selection)
               /\ Selectable(At(NodeAt(menubar, i).Items, NodeAt(menubar, i).Selection))

\* the model after n presses of key on node m
RECURSIVE Presses(_, _, _)
Presses(m, key, n) ==
    IF n = 0 THEN m ELSE Presses(Update(m, KeyMsg(key)).m, key, n - 1)

NextKey(m) == IF m.isDropdown THEN "down" ELSE "right"

PrevKey(m) == IF m.isDropdown THEN "up" ELSE "left"

\* C5: on the active node that has no open child, with k >= 1 selectable
\* entries and Selection on one of them, every move-next (and every
\* move-previous) press leaves Selection on a selectable entry, and k presses
\* bring the node back to where it was.
C5_MoveWrapsOverSelectable ==
    LET f == Deepest(menubar)
        k == NumSelectable(f.Items)
    IN  (/\ f.Active /\ f.OpenSubMenu = -1 /\ k >= 1
         /\ InRange(f.Items, f.Selection)
         /\ Selectable(At(f.Items, f.Selection)))
        => \A key \in {NextKey(f), PrevKey(f)} :
              /\ \A j \in 1..k :
                    /\ ~Update(Presses(f, key, j - 1), KeyMsg(key)).panic
                    /\ Update(Presses(f, key, j - 1), KeyMsg(key)).cmd = NoCmd
                    /\ InRange(f.Items, Presses(f, key, j).Selection)
                    /\ Selectable(At(f.Items, Presses(f, key, j).Selection))
              /\ Presses(f, key, k) = f

\* a move-next press in a dropdown wrapped around past a separator and a
\* disabled entry
C5_Witness ==
    /\ IsKey("down")
    /\ Depth(prev) >= 1 /\ Depth(menubar) = Depth(prev)
    /\ Len(Deepest(prev).Items) > 3
    /\ ~HasSelectable(SubSeq(Deepest(prev).Items, 2, 3))
    /\ Deepest(prev).Selection = 0
    /\ Deepest(menubar).Selection = 3

\* some entry's hotkey matches the key (exactly or ignoring case), and every
\* entry whose hotkey matches is a separator or disabled
OnlyUnselectableMatch(its, key) ==
    /\ \E k \in 1..Len(its) : its[k].Hotkey # "" /\ EqualFold(key, its[k].Hotkey)
    /\ \A k \in 1..Len(its) :
          (its[k].Hotkey # "" /\ EqualFold(key, its[k].Hotkey)) => ~Selectable(its[k])

\* C6: a key that matches only hotkeys of disabled or separator entries of the
\* active node that has no open child leaves the whole model unchanged and
\* returns no command.
C6_DisabledHotkeyIgnored ==
    (/\ lastMsg.kind = "key" /\ lastMsg.key \in CharKeys
     /\ prev.Active
     /\ OnlyUnselectableMatch(Deepest(prev).Items, lastMsg.key))
        => /\ menubar = prev
           /\ cmd = NoCmd
           /\ ~panicked

\* the hotkey of a disabled entry was pressed, with its exact case, in a dropdown
C6_Witness ==
    /\ lastMsg.kind = "key" /\ lastMsg.key \in CharKeys
    /\ prev.Active /\ Depth(prev) >= 1
    /\ \E k \in 1..Len(Deepest(prev).Items) :
          /\ Deepest(prev).Items[k].Hotkey = lastMsg.key
          /\ Deepest(prev).Items[k].Disabled
    /\ OnlyUnselectableMatch(Deepest(prev).Items, lastMsg.key)

\* C7: on a bar created with no entries, left, right, up, down and enter
\* complete without error, leave Selection and the open-child state unchanged
\* and return no command.
C7_EmptyBarKeysAreNoOps ==
    (/\ Len(items) = 0 /\ prev.Active
     /\ lastMsg.kind = "key"
     /\ lastMsg.key \in {"left", "right", "up", "down", "enter"})
        => /\ ~panicked
           /\ menubar.Selection = prev.Selection
           /\ menubar.OpenSubMenu = prev.OpenSubMenu
           /\ menubar.SubMenuState = prev.SubMenuState
           /\ cmd = NoCmd

\* the node whose skip loop the last key ran: the bar for left/right, the
\* deepest dropdown for up/down
LoopNode == IF IsKey("left") \/ IsKey("right") THEN menubar ELSE Deepest(menubar)

\* C8: on a non-empty node whose entries are all separators or disabled, the
\* skip loop of a movement key stops after at most len(Items) iterations and
\* leaves Selection a valid index.
C8_SkipLoopStops ==
    (loopItems # <<>> /\ ~HasSelectable(loopItems))
        => /\ loopSteps <= Len(loopItems)
           /\ ~panicked
           /\ LoopNode.Items = loopItems
           /\ InRange(loopItems, LoopNode.Selection)

\* the loop went once around a dropdown that has no selectable entry
C8_Witness ==
    /\ loopItems # <<>> /\ ~HasSelectable(loopItems)
    /\ IsKey("down") /\ Depth(prev) >= 1
    /\ loopSteps = Len(loopItems)

\* C9: with the bar active and n >= 1 dropdowns open, esc closes exactly the
\* deepest dropdown: n-1 levels remain, the bar stays active, no command is
\* returned and every remaining node keeps its Selection.
C9_EscClosesDeepest ==
    (IsKey("esc") /\ prev.Active /\ Depth(prev) >= 1)
        => /\ Depth(menubar) = Depth(prev) - 1
           /\ menubar.Active
           /\ cmd = NoCmd
           /\ \A i \in 0..(Depth(prev) - 1) :
                 /\ NodeAt(menubar, i).Items = NodeAt(prev, i).Items
                 /\ NodeAt(menubar, i).Selection = NodeAt(prev, i).Selection
                 /\ NodeAt(menubar, i).Active

\* esc arrived while a chain of two dropdowns was open
C9_Witness ==
    /\ IsKey("esc") /\ prev.Active
    /\ Depth(prev) >= 2
    /\ Depth(menubar) = Depth(prev) - 1

\* index of the next selectable entry after sel, cyclically; -1 when none
NextSelectable(its, sel) ==
    LET n == Len(its)
        D == {d \in 1..n : Selectable(At(its, (sel + d) % n))}
    IN  IF D = {} THEN -1
        ELSE (sel + (CHOOSE d \in D : \A e \in D : d <= e)) % n

\* C10: with the bar active and dropdowns open, right is consumed by the chain
\* exactly when the deepest node's selected entry has a submenu, which is then
\* opened one level deeper with the bar's Selection unchanged; otherwise the
\* bar moves its Selection to the next selectable bar entry, wrapping around.
C10_RightRouting ==
    (IsKey("right") /\ prev.Active /\ Depth(prev) >= 1)
        => IF Len(At(Deepest(prev).Items, Deepest(prev).Selection).SubMenu) > 0
           THEN /\ Depth(menubar) = Depth(prev) + 1
                /\ menubar.Selection = prev.Selection
                /\ NodeAt(menubar, Depth(prev)).OpenSubMenu = Deepest(prev).Selection
                /\ Deepest(menubar) = FreshChild(Deepest(prev), Deepest(prev).Selection)
           ELSE /\ NextSelectable(prev.Items, prev.Selection) # -1
                /\ menubar.Selection = NextSelectable(prev.Items, prev.Selection)

\* C11 as stated: with the bar active and n >= 2 dropdowns open, left closes
\* only the deepest dropdown and leaves Selection and OpenSubMenu of the bar
\* and of every remaining dropdown unchanged.
C11_LeftKeepsEveryOpenIndex ==
    (IsKey("left") /\ prev.Active /\ Depth(prev) >= 2)
        => /\ Depth(menubar) = Depth(prev) - 1
           /\ \A i \in 0..(Depth(prev) - 1) :
                 /\ NodeAt(menubar, i).Selection = NodeAt(prev, i).Selection
                 /\ NodeAt(menubar, i).OpenSubMenu = NodeAt(prev, i).OpenSubMenu

\* C11 amended: with the bar active and n >= 2 dropdowns open, left closes
\* only the deepest dropdown: n-1 levels remain, every remaining node keeps
\* its Selection, every remaining node but the parent of the closed dropdown
\* keeps its OpenSubMenu, and that parent's OpenSubMenu becomes -1.
C11_LeftClosesDeepest ==
    (IsKey("left") /\ prev.Active /\ Depth(prev) >= 2)
        => /\ Depth(menubar) = Depth(prev) - 1
           /\ cmd = NoCmd
           /\ \A i \in 0..(Depth(prev) - 1) :
                 /\ NodeAt(menubar, i).Items = NodeAt(prev, i).Items
                 /\ NodeAt(menubar, i).Selection = NodeAt(prev, i).Selection
                 /\ NodeAt(menubar, i).Active
           /\ \A i \in 0..(Depth(prev) - 2) :
                 NodeAt(menubar, i).OpenSubMenu = NodeAt(prev, i).OpenSubMenu
           /\ Deepest(menubar).OpenSubMenu = -1
           /\ Deepest(menubar).SubMenuState = Nil

\* left arrived while three dropdowns were open, and two remain
C11_Witness ==
    /\ IsKey("left") /\ prev.Active
    /\ Depth(prev) = 3
    /\ Depth(menubar) = 2
    /\ menubar.OpenSubMenu = prev.OpenSubMenu

\* the node of prev that holds the entry under the pointer, and that entry
HitNode == NodeAt(prev, hit.level)

HitItem == At(HitNode.Items, hit.index)

\* the same node after the call
HitNodeAfter == NodeAt(menubar, hit.level)

\* C12: after a pointer motion over a selectable entry i of the bar or of an
\* open dropdown, that node's Selection is i, and a submenu of another entry
\* j # i that was open at that node is no longer open, whether or not entry i
\* has a submenu.
C12_HoverClosesSibling ==
    (IsMouse("MouseMotion") /\ hit.index # -1 /\ Selectable(HitItem))
        => /\ Depth(menubar) >= hit.level
           /\ HitNodeAfter.Selection = hit.index
           /\ (HitNode.OpenSubMenu # -1 /\ HitNode.OpenSubMenu # hit.index)
                 => HitNodeAfter.OpenSubMenu # HitNode.OpenSubMenu

\* C13: a pointer release on an entry whose own submenu is open closes that
\* submenu (the node has no open child afterwards), on the bar and inside a
\* dropdown alike; a release on a submenu entry whose submenu is not open
\* opens it.
C13_ReleaseTogglesSubmenu ==
    (/\ IsMouse("MouseRelease") /\ hit.index # -1
     /\ Selectable(HitItem) /\ Len(HitItem.SubMenu) > 0)
        => /\ Depth(menubar) >= hit.level
           /\ IF HitNode.OpenSubMenu = hit.index
              THEN /\ HitNodeAfter.OpenSubMenu = -1
                   /\ HitNodeAfter.SubMenuState = Nil
              ELSE /\ HitNodeAfter.OpenSubMenu = hit.index
                   /\ HitNodeAfter.SubMenuState # Nil

\* C14: a pointer press, motion or release that lands on a separator or on a
\* disabled entry, on the bar or in any open dropdown, is reported handled,
\* leaves the whole model unchanged and emits no command.
C14_UnselectableAbsorbsPointer ==
    (lastMsg.kind = "mouse" /\ hit.index # -1 /\ ~Selectable(HitItem))
        => /\ handled
           /\ menubar = prev
           /\ cmd = NoCmd

\* a submenu was opened at level i by the last call: the node at that menu
\* position has an open entry it did not have open before
OpenedAt(i) ==
    /\ SamePath(prev, menubar, i)
    /\ NodeAt(menubar, i).OpenSubMenu # -1
    /\ NodeAt(menubar, i).SubMenuState # Nil
    /\ NodeAt(menubar, i).OpenSubMenu # NodeAt(prev, i).OpenSubMenu

\* index of the first entry that is neither a separator nor disabled
FirstSelectable(its) ==
    CHOOSE i \in 0..(Len(its) - 1) :
        /\ Selectable(At(its, i))
        /\ \A j \in 0..(i - 1) : ~Selectable(At(its, j))

\* C15: whenever a submenu is opened, the new child is active, is a dropdown,
\* has no open child of its own, carries the parent's styles, and its
\* Selection is the index of the first non-separator, non-disabled entry of
\* the submenu.
C15_FreshChildOnFirstSelectable ==
    \A i \in Levels(menubar) :
        OpenedAt(i) =>
            LET parent == NodeAt(menubar, i)
                child == Sub(parent)
            IN  /\ child.Active
                /\ child.isDropdown
                /\ child.OpenSubMenu = -1
                /\ child.SubMenuState = Nil
                /\ child.Styles = parent.Styles
                /\ child.Items = At(parent.Items, parent.OpenSubMenu).SubMenu
                /\ HasSelectable(child.Items)
                      => child.Selection = FirstSelectable(child.Items)

\* the node that has keyboard focus in prev, its level and its selected entry
Focus == Deepest(prev)

FocusLevel == Depth(prev)

FocusItem == At(Focus.Items, Focus.Selection)

\* the node at the focus level after the call
FocusAfter == NodeAt(menubar, FocusLevel)

\* the focus node holds the fresh dropdown of its entry i after the call
FocusOpened(i) ==
    /\ Depth(menubar) = FocusLevel + 1
    /\ FocusAfter.OpenSubMenu = i
    /\ Sub(FocusAfter) = FreshChild(Focus, i)

\* C16: on the active node with keyboard focus, enter does exactly one of:
\* nothing when the selected entry is disabled; open the selected entry's
\* submenu when it has one; emit the selected entry's action when it has an
\* action and no submenu; nothing otherwise. Selection and Active are
\* unchanged in every case.
C16_EnterDoesOneThing ==
    (IsKey("enter") /\ prev.Active /\ Len(Focus.Items) > 0)
        => /\ Depth(menubar) >= FocusLevel
           /\ FocusAfter.Selection = Focus.Selection
           /\ FocusAfter.Active = Focus.Active
           /\ CASE FocusItem.Disabled ->
                     menubar = prev /\ cmd = NoCmd
                [] ~FocusItem.Disabled /\ Len(FocusItem.SubMenu) > 0 ->
                     FocusOpened(Focus.Selection) /\ cmd = NoCmd
                [] ~FocusItem.Disabled /\ Len(FocusItem.SubMenu) = 0
                      /\ FocusItem.Action # NoAction ->
                     menubar = prev /\ cmd = FocusItem.Action
                [] OTHER ->
                     menubar = prev /\ cmd = NoCmd

\* enter opened the submenu of the entry selected in an open dropdown
C16_Witness ==
    /\ IsKey("enter") /\ prev.Active
    /\ FocusLevel >= 1
    /\ ~FocusItem.Disabled /\ Len(FocusItem.SubMenu) > 0
    /\ Depth(menubar) = FocusLevel + 1

\* enabled non-separator entries of its whose hotkey is the key exactly
ExactSet(its, key) ==
    {i \in 0..(Len(its) - 1) :
        Selectable(At(its, i)) /\ At(its, i).Hotkey = key}

\* enabled non-separator entries of its whose hotkey is the key up to case
FoldSet(its, key) ==
    {i \in 0..(Len(its) - 1) :
        Selectable(At(its, i)) /\ Fold(At(its, i).Hotkey) = Fold(key)}

\* the hotkey target the claim describes, -1 when no entry matches
HotkeyTarget(its, key) ==
    IF ExactSet(its, key) # {} THEN Min(ExactSet(its, key))
    ELSE IF FoldSet(its, key) # {} THEN Min(FoldSet(its, key))
    ELSE -1

\* C17: for a key press on the node with keyboard focus, the hotkey target is
\* the first enabled non-separator entry whose hotkey equals the key exactly,
\* and only if none matches exactly the first one matching ignoring case;
\* Selection moves to the target.
C17_ExactHotkeyFirst ==
    (/\ lastMsg.kind = "key" /\ prev.Active
     /\ HotkeyTarget(Focus.Items, lastMsg.key) # -1)
        => /\ Depth(menubar) >= FocusLevel
           /\ FocusAfter.Selection = HotkeyTarget(Focus.Items, lastMsg.key)

\* the key matched an entry exactly at a later index than the first entry it
\* matches ignoring case, and Selection went to the exact match
C17_Witness ==
    /\ lastMsg.kind = "key" /\ prev.Active
    /\ ExactSet(Focus.Items, lastMsg.key) # {}
    /\ Min(FoldSet(Focus.Items, lastMsg.key)) < Min(ExactSet(Focus.Items, lastMsg.key))
    /\ FocusAfter.Selection = Min(ExactSet(Focus.Items, lastMsg.key))

\* an enabled entry with a non-empty submenu and an action
HasBoth(it) == Selectable(it) /\ Len(it.SubMenu) > 0 /\ it.Action # NoAction

\* C18: an enabled entry that has both a submenu and an action, activated by
\* enter, by its hotkey or by a pointer release on it, gets its submenu opened
\* or toggled and its action is never emitted; a hotkey activation leaves the
\* node's Active flag unchanged.
C18_SubmenuBeforeAction ==
    /\ (/\ IsKey("enter") /\ prev.Active /\ Len(Focus.Items) > 0
        /\ HasBoth(FocusItem))
          => cmd = NoCmd /\ FocusOpened(Focus.Selection)
    /\ (/\ lastMsg.kind = "key" /\ prev.Active
        /\ HotkeyTarget(Focus.Items, lastMsg.key) # -1
        /\ HasBoth(At(Focus.Items, HotkeyTarget(Focus.Items, lastMsg.key))))
          => /\ cmd = NoCmd
             /\ FocusOpened(HotkeyTarget(Focus.Items, lastMsg.key))
             /\ FocusAfter.Active = Focus.Active
    /\ (IsMouse("MouseRelease") /\ hit.index # -1 /\ HasBoth(HitItem))
          => /\ cmd = NoCmd
             /\ Depth(menubar) >= hit.level
             /\ \/ /\ HitNodeAfter.OpenSubMenu = hit.index
                   /\ Depth(menubar) = hit.level + 1
                   /\ Sub(HitNodeAfter) = FreshChild(HitNode, hit.index)
                \/ /\ HitNode.OpenSubMenu = hit.index
                   /\ HitNodeAfter.OpenSubMenu = -1
                   /\ HitNodeAfter.SubMenuState = Nil

\* the hotkey of an entry with submenu and action was pressed in an open
\* dropdown and its submenu opened without a command
C18_Witness ==
    /\ lastMsg.kind = "key" /\ prev.Active
    /\ FocusLevel >= 1
    /\ HotkeyTarget(Focus.Items, lastMsg.key) # -1
    /\ HasBoth(At(Focus.Items, HotkeyTarget(Focus.Items, lastMsg.key)))
    /\ Depth(menubar) = FocusLevel + 1
    /\ cmd = NoCmd

\* C19: while the root is inactive, Update with any key event returns its
\* input model and no command.
C19_InactiveIgnoresKeys ==
    (lastMsg.kind = "key" /\ ~prev.Active)
        => /\ menubar = prev
           /\ cmd = NoCmd
           /\ ~panicked

\* a key that is the hotkey of a bar entry arrived while the bar was inactive
C19_Witness ==
    /\ lastMsg.kind = "key" /\ ~prev.Active
    /\ HotkeyTarget(prev.Items, lastMsg.key) # -1
    /\ menubar = prev

\* C20: pointer events are processed while the bar is inactive: a release on
\* a bar entry while Active = false sets Active = true and opens the entry's
\* submenu if it has one; press and motion events never change Active.
C20_ReleaseActivatesBar ==
    /\ (IsMouse("MouseRelease") /\ ~prev.Active /\ hit.level = 0)
          => /\ menubar.Active
             /\ menubar.Selection = hit.index
             /\ Len(HitItem.SubMenu) > 0
                   => /\ menubar.OpenSubMenu = hit.index
                      /\ menubar.SubMenuState # Nil
                      /\ Sub(menubar) = FreshChild(prev, hit.index)
    /\ (IsMouse("MousePress") \/ IsMouse("MouseMotion"))
          => /\ menubar.Active = prev.Active
             /\ \A i \in Levels(menubar) : i >= 1 => NodeAt(menubar, i).Active

\* a release on a submenu entry of the inactive bar activated it and opened
\* the entry's dropdown
C20_Witness ==
    /\ IsMouse("MouseRelease") /\ ~prev.Active
    /\ hit.level = 0 /\ Len(HitItem.SubMenu) > 0
    /\ menubar.Active
    /\ Depth(menubar) = 1

\* C21: Update does not modify the state it is given: after Update(s, e)
\* returns for a key or pointer event e, the caller's s, with every node of
\* its open chain, is the same as before the call.
C21_UpdateLeavesInputIntact ==
    (lastMsg.kind \in {"key", "mouse"}) => held = prev

\* C22: under the example host's esc wrapper, from a reachable state with an
\* active bar and n open dropdown levels, each of the first n esc presses
\* closes exactly one level, press n+1 leaves the bar inactive with no open
\* submenu, and one further press makes the bar active again.
C22_EscUnwinds ==
    (escFrom # -1 /\ escRun >= 1)
        => /\ ~panicked
           /\ cmd = NoCmd
           /\ IF escRun <= escFrom
              THEN /\ menubar.Active
                   /\ Depth(menubar) = escFrom - escRun
                   /\ Depth(prev) = Depth(menubar) + 1
                   /\ \A i \in 0..(Depth(menubar) - 1) :
                         /\ NodeAt(menubar, i).OpenSubMenu = NodeAt(prev, i).OpenSubMenu
                         /\ NodeAt(menubar, i).Selection = NodeAt(prev, i).Selection
              ELSE IF escRun = escFrom + 1
              THEN /\ ~menubar.Active
                   /\ menubar.OpenSubMenu = -1
                   /\ menubar.SubMenuState = Nil
              ELSE /\ menubar.Active
                   /\ menubar.OpenSubMenu = -1
                   /\ menubar.SubMenuState = Nil

\* a run that began with three dropdown levels open has seen its fifth press
C22_Witness ==
    /\ escFrom = 3
    /\ escRun = 5
    /\ menubar.Active
    /\ Depth(menubar) = 0

\* C23: ViewDropdownLayers returns one layer per open dropdown level, parent
\* before child, and none when no submenu is open; the first layer is at
\* (0,0), each further layer's X is the previous layer's X plus the previous
\* level's rendered width, and its Y is the previous layer's Y plus the
\* previous level's Selection + 1.
C23_LayersFollowChain ==
    LET L == drawn.layers
        n == Depth(menubar)
    IN  /\ Len(L) = n
        /\ \A k \in 1..n : L[k].Content = renderSingleDropdown(NodeAt(menubar, k))
        /\ n >= 1 => (L[1].X = 0 /\ L[1].Y = 0)
        /\ \A k \in 2..n :
              /\ L[k].X = L[k - 1].X + BlockWidth(L[k - 1].Content)
              /\ L[k].Y = L[k - 1].Y + NodeAt(menubar, k - 1).Selection + 1

\* three dropdown levels are open and drawn, the second not on its first row
C23_Witness ==
    /\ Depth(menubar) = 3
    /\ Len(drawn.layers) = 3
    /\ drawn.layers[2].Y > 1
    /\ drawn.layers[3].X > drawn.layers[2].X

\* the origin at which checkMouse hit-tests the node at a level of the chain
RECURSIVE Origin(_, _)
Origin(m, level) ==
    IF level = 0 THEN [x |-> 0, y |-> 0]
    ELSE SubOrigin(NodeAt(m, level - 1), Origin(m, level - 1).x, Origin(m, level - 1).y)

\* C24: in every reachable state, for every dropdown that has an open child,
\* the row at which the child's layer is drawn (the parent's Selection + 1
\* below the parent's top) is the row at which hit-testing places the child
\* (top border plus the heights of the entries before OpenSubMenu).
C24_NestedDrawnWhereHit ==
    \A k \in 1..(Depth(menubar) - 1) :
        drawn.layers[k + 1].Y - drawn.layers[k].Y
            = Origin(menubar, k + 1).y - Origin(menubar, k).y

\* C25: in every reachable state with a dropdown open under the bar, the
\* column offset at which it is drawn (the offset ViewDropdownLayers returns)
\* is the column at which hit-testing places it (the sum of measureItem over
\* the entries before OpenSubMenu), separators before the open entry included.
C25_BarDropdownDrawnWhereHit ==
    Depth(menubar) >= 1 => drawn.offset = Origin(menubar, 1).x

\* what a terminal shows for a line: its printable characters, each with the
\* style that the style sequences before it leave active; a wide character
\* takes two cells, the second one with no character of its own
Plain == [color |-> "none", bold |-> FALSE]

SGR(style, code) ==
    CASE code = RST -> Plain
      [] code = RED -> [style EXCEPT !.color = "red"]
      [] code = BOLD -> [style EXCEPT !.bold = TRUE]

RECURSIVE CellsFrom(_, _, _)
CellsFrom(line, k, style) ==
    IF k > Len(line) THEN <<>>
    ELSE IF IsANSI(line[k]) THEN CellsFrom(line, k + 1, SGR(style, line[k]))
    ELSE IF IsWide(line[k])
    THEN <<[ch |-> line[k], style |-> style], [ch |-> "", style |-> style]>>
             \o CellsFrom(line, k + 1, style)
    ELSE <<[ch |-> line[k], style |-> style]>> \o CellsFrom(line, k + 1, style)

Cells(line) == CellsFrom(line, 1, Plain)

Returned == call.fn = "Overlay" /\ result # NoResult

\* C26: for every background block, foreground block and x, y >= 0, Overlay
\* returns a block in which foreground row i occupies row y+i, columns
\* x .. x+width(row i)-1, with the foreground's own characters and styles; a
\* background with fewer rows than needed is grown, and a background row
\* narrower than x is padded with blanks up to column x.
C26_OverlayPlacesForeground ==
    Returned =>
        /\ Len(result) = Max({Len(call.bg), call.y + Len(call.fg)})
        /\ \A i \in 1..Len(call.fg) :
              LET row == Cells(result[call.y + i])
                  fg == Cells(call.fg[i])
                  bgw == IF call.y + i <= Len(call.bg)
                         THEN LineWidth(call.bg[call.y + i]) ELSE 0
              IN  /\ Len(row) >= call.x + Len(fg)
                  /\ SubSeq(row, call.x + 1, call.x + Len(fg)) = fg
                  /\ \A c \in (bgw + 1)..call.x : row[c].ch = " "

\* C27: for a background row at least x+width(fg) cells wide, the row Overlay
\* produces has, left of x and right of x+width(fg), the original
\* background's cells with the same characters and the same active style on
\* every cell; no foreground style reaches the suffix.
C27_OverlayKeepsBackground ==
    Returned =>
        \A i \in 1..Len(call.fg) :
            (/\ call.y + i <= Len(call.bg)
             /\ LineWidth(call.bg[call.y + i]) >= call.x + LineWidth(call.fg[i]))
            => LET row == Cells(result[call.y + i])
                   bg == Cells(call.bg[call.y + i])
                   w == LineWidth(call.fg[i])
               IN  /\ Len(row) = Len(bg)
                   /\ SubSeq(row, 1, call.x) = SubSeq(bg, 1, call.x)
                   /\ SubSeq(row, call.x + w + 1, Len(row))
                         = SubSeq(bg, call.x + w + 1, Len(bg))

\* the widest label and the right column of a dropdown's entries
LabelColumn(its) == Max({Len(its[k].Label) : k \in 1..Len(its)})

ShortcutColumn(its) == Max({Len(its[k].Shortcut) : k \in 1..Len(its)})

RightColumn(its) ==
    IF (\E k \in 1..Len(its) : Len(its[k].SubMenu) > 0) /\ ShortcutColumn(its) < 2
    THEN 2
    ELSE ShortcutColumn(its)

RECURSIVE EntriesText(_, _)
EntriesText(its, n) ==
    IF n = 0 THEN ""
    ELSE EntriesText(its, n - 1)
         \o " " \o (IF its[n].IsSeparator THEN "|" ELSE its[n].Label) \o " "

\* C29: when a target width W > 0 is supplied and the entries plus the
\* right-side text fit within W minus the bar's frame, the rendered bar is one
\* row of visible width exactly W, the entries left-aligned in their order
\* and the right-side text ending at the last column.
C29_BarFillsWidth ==
    (/\ call.fn = "bar" /\ result # NoResult
     /\ call.width > 0
     /\ Len(EntriesText(call.items, Len(call.items))) + Len(call.right)
           <= call.width - BarFrame)
        => LET entries == EntriesText(call.items, Len(call.items))
           IN  /\ Len(result) = 1
               /\ Len(result[1]) = call.width
               /\ result[1] = entries
                     \o Repeat(" ", call.width - Len(entries) - Len(call.right))
                     \o call.right

\* the example's bar with a clock was rendered at width 40
C29_Witness ==
    /\ call.fn = "bar" /\ result # NoResult
    /\ call.items = FileEditHelp
    /\ call.right = "12:00:00"
    /\ call.width = 40
    /\ Len(result[1]) = 40

\* C30: in every state reachable from New(items) with a non-empty entries
\* sequence, 0 <= Selection < len(Items) at every node of the chain, and no
\* key or pointer event indexes the entries out of range.
C30_SelectionInRange ==
    (items # <<>>)
        => /\ ~panicked
           /\ \A i \in Levels(menubar) :
                 InRange(NodeAt(menubar, i).Items, NodeAt(menubar, i).Selection)

\* a move wrapped around the end of a dropdown's entries
C30_Witness ==
    /\ IsKey("down") /\ prev.Active
    /\ FocusLevel >= 1
    /\ Focus.Selection = Len(Focus.Items) - 1
    /\ FocusAfter.Selection = 0

\* the call of splitWithANSI has returned
Cut == call.fn = "splitWithANSI" /\ result # NoResult

\* a double-width character of s covers columns t-1 and t
Straddles(s, t) ==
    \E k \in 1..Len(s) :
        IsWide(s[k]) /\ LineWidth(SubSeq(s, 1, k - 1)) = t - 1

\* C31: for every styled text s and every t with 0 <= t <= width(s),
\* splitWithANSI(s, t) returns a prefix and a suffix that concatenate to s;
\* the prefix is exactly t cells wide, or t-1 when a double-width character
\* straddles column t, and never wider than t, also when the straddling
\* character is the last one of s.
C31_SplitAtWidth ==
    (Cut /\ call.width <= LineWidth(call.s)) =>
        /\ result.head \o result.tail = call.s
        /\ LineWidth(result.head) <= call.width
        /\ LineWidth(result.head) =
              IF Straddles(call.s, call.width) THEN call.width - 1 ELSE call.width

\* C37: for a background row of visible width W >= x + width(fg row), the
\* row Overlay produces is exactly W cells wide and every background
\* character right of the foreground is in the column it had, also when
\* column x or column x+width(fg row) lies inside a double-width background
\* character (whose uncovered half cannot be shown and is not compared).
C37_OverlayKeepsColumns ==
    Returned =>
        \A i \in 1..Len(call.fg) :
            (/\ call.y + i <= Len(call.bg)
             /\ LineWidth(call.bg[call.y + i]) >= call.x + LineWidth(call.fg[i]))
            => LET row == Cells(result[call.y + i])
                   bg == Cells(call.bg[call.y + i])
                   right == call.x + LineWidth(call.fg[i]) + 1
               IN  /\ Len(row) = Len(bg)
                   /\ \A c \in right..Len(bg) :
                          (c = right /\ bg[c].ch = "") \/ row[c].ch = bg[c].ch

\* the last call was left or right on an active bar with an open dropdown
\* whose chain did not consume the key, so the bar itself handled it
BarHandled ==
    /\ ~panicked
    /\ prev.Active /\ ~prev.isDropdown
    /\ prev.OpenSubMenu # -1 /\ prev.SubMenuState # Nil
    /\ \/ IsKey("left") /\ ~hasOpenSubmenu(Sub(prev))
       \/ IsKey("right") /\ ~wantsToHandleRight(Sub(prev))

\* C32: when the bar itself handles left or right while a dropdown is open,
\* the dropdown open afterwards, if any, is the fresh submenu of the newly
\* selected bar entry; the previous dropdown is never left open while the
\* bar's Selection points at a different entry, also when the newly selected
\* entry has no submenu.
C32_BarSwitchReplacesDropdown ==
    BarHandled =>
        \/ menubar.OpenSubMenu = -1 /\ menubar.SubMenuState = Nil
        \/ /\ menubar.OpenSubMenu = menubar.Selection
           /\ Len(At(menubar.Items, menubar.Selection).SubMenu) > 0
           /\ menubar.SubMenuState = Ref(FreshChild(menubar, menubar.Selection))

\* the actions of the disabled entries of a menu definition, at any depth
RECURSIVE DisabledActions(_)
DisabledActions(its) ==
    UNION { (IF its[k].Disabled /\ its[k].Action # NoAction
             THEN {its[k].Action} ELSE {}) \cup DisabledActions(its[k].SubMenu)
            : k \in 1..Len(its) }

\* C33: in every reachable state no open dropdown is the submenu of a
\* disabled entry and the command returned by the last call is not the
\* action of a disabled entry: as nothing is open before the first event,
\* no event on any route (enter, hotkey, down, right, bar-level left/right,
\* pointer release or motion) opens a disabled entry's submenu or emits its
\* action.
C33_DisabledNeverActs ==
    ~panicked =>
        /\ cmd \notin DisabledActions(items)
        /\ \A j \in 0..(Depth(menubar) - 1) :
              ~At(NodeAt(menubar, j).Items, NodeAt(menubar, j).OpenSubMenu).Disabled

\* C34: in every state returned by Update, starting from New with nothing
\* open and the host flipping Active only while no submenu is open, every
\* node with an open child is active and every open child is active: an
\* inactive bar has no open dropdown and a dropdown that was deactivated is
\* gone from the state the same call returns.
C34_OpenChainActive ==
    \A j \in 0..Depth(menubar) :
        LET n == NodeAt(menubar, j) IN
        (n.OpenSubMenu # -1 \/ n.SubMenuState # Nil) =>
            /\ n.Active
            /\ n.SubMenuState # Nil => Sub(n).Active

\* esc in a nested dropdown deactivated it and its parent dropped it
C34_Witness ==
    /\ IsKey("esc") /\ ~panicked
    /\ Depth(prev) = 2 /\ Depth(menubar) = 1
    /\ menubar.Active /\ Sub(menubar).Active
    /\ Sub(menubar).OpenSubMenu = -1

\* the nesting depth of a menu definition: the longest chain of submenus
RECURSIVE Nesting(_)
Nesting(its) ==
    Max({0} \cup {1 + Nesting(its[k].SubMenu) :
                    k \in {i \in 1..Len(its) : Len(its[i].SubMenu) > 0}})

\* C35: in every reachable state, at every node with an open child, the
\* entry at OpenSubMenu exists and has a non-empty submenu, and the child's
\* entries are exactly that submenu; so the open chain is a path in the menu
\* tree the bar was built from and is no longer than its nesting depth.
C35_ChainIsTreePath ==
    /\ menubar.Items = items
    /\ \A j \in 0..Depth(menubar) :
          LET n == NodeAt(menubar, j) IN
          (n.OpenSubMenu # -1 \/ n.SubMenuState # Nil) =>
              /\ InRange(n.Items, n.OpenSubMenu)
              /\ n.SubMenuState # Nil
              /\ Len(At(n.Items, n.OpenSubMenu).SubMenu) > 0
              /\ Sub(n).Items = At(n.Items, n.OpenSubMenu).SubMenu
    /\ Depth(menubar) <= Nesting(items)

\* the chain is as long as the menu definition is deep
C35_Witness ==
    /\ items = MainBar
    /\ Depth(menubar) = 3 /\ Nesting(items) = 3
    /\ Deepest(menubar).Items = AdvancedMenu

\* the last call was up, down, enter or a character key on an active bar
\* with an open submenu
DelegatedKey ==
    /\ ~panicked
    /\ lastMsg.kind = "key" /\ lastMsg.key \in {"up", "down", "enter"} \cup CharKeys
    /\ prev.Active /\ Depth(prev) >= 1

\* C36: while a submenu is open, up, down, enter and every character key
\* are handled only by the deepest open node: the bar and every other
\* ancestor keep their Selection and OpenSubMenu, the deepest node and the
\* returned command are what that node's own key handling gives, and a key
\* that is a hotkey of an ancestor entry only changes nothing.
C36_KeysGoToDeepest ==
    DelegatedKey =>
        /\ Depth(menubar) >= FocusLevel
        /\ \A j \in 0..(FocusLevel - 1) :
              /\ NodeAt(menubar, j).Selection = NodeAt(prev, j).Selection
              /\ NodeAt(menubar, j).OpenSubMenu = NodeAt(prev, j).OpenSubMenu
              /\ NodeAt(menubar, j).Active
        /\ FocusAfter = HandleKey(Focus, lastMsg.key).m
        /\ cmd = HandleKey(Focus, lastMsg.key).cmd
        /\ (lastMsg.key \in CharKeys /\ HotkeyTarget(Focus.Items, lastMsg.key) = -1)
              => menubar = prev /\ cmd = NoCmd

\* with File's dropdown open, the bar's hotkey of Edit is pressed and
\* nothing changes
C36_Witness ==
    /\ DelegatedKey /\ IsKey("E")
    /\ items = MainBar /\ Depth(prev) = 1 /\ prev.OpenSubMenu = 0
    /\ HotkeyTarget(prev.Items, "E") = 1
    /\ menubar = prev /\ cmd = NoCmd

====
